---------------------------- MODULE Spec2Model ----------------------------
(***************************************************************************)
(* A model of lib/polyfill/patchedmediakeys_v01b.js: the polyfill that     *)
(* implements the promise-based EME API on top of the prefixed EME v0.1b   *)
(* API (MediaKeySystemAccess, MediaKeys, MediaKeySession and               *)
(* MediaKeyStatusMap).                                                     *)
(*                                                                         *)
(* Seven specifications share the module's variables:                      *)
(*   Spec        one MediaKeys object with one session: the session's      *)
(*               calls other than update(), the host's events, the timer;  *)
(*   SpecUpdate  one session, update() and the promise job queue;          *)
(*   SpecRouting one MediaKeys object with several sessions and the host's *)
(*               events;                                                   *)
(*   SpecIsolation  two sessions, all the calls of a session and the       *)
(*               host's events that carry a session id;                    *)
(*   SpecMedia   setMediaKeys over several media elements and MediaKeys    *)
(*               objects;                                                  *)
(*   SpecAccess  the MediaKeySystemAccess constructor on bounded inputs;   *)
(*   SpecStatus  one MediaKeyStatusMap driven through its methods.         *)
(***************************************************************************)
EXTENDS Integers, Sequences, FiniteSets, TLC

VARIABLES
    keySystem,     \* MediaKeys.keySystem_
    sessions,      \* the MediaKeySession objects, in creation order
    newSessions,   \* MediaKeys.newSessions_  (indices into sessions)
    sessionMap,    \* MediaKeys.sessionMap_   (key -> index into sessions, 0: absent)
    calls,         \* the promises made by update(), in call order
    jobs,          \* the promise job queue (reactions waiting to run)
    addKeyLog,     \* the webkitAddKey invocations so far (indices into calls)
    owed,          \* per session: webkitAddKey invocations the host has not answered
    last,          \* the operation that ran last, its result and its outputs
    order,         \* history: the sessions in the order of their first request
                   \* to the host, and the assignments of ids in their order,
                   \* each <<id, session>>
    dom,           \* SpecMedia: the media elements' mediaKeys, and the media_
                   \* and the listeners of the MediaKeys objects
    acc,           \* SpecAccess: the constructor's inputs and its outcome
    tbl,           \* SpecStatus: a MediaKeyStatusMap
    tlast          \* SpecStatus: the method called last and what it returned

mainVars == <<keySystem, sessions, newSessions, sessionMap, calls, jobs,
              addKeyLog, owed, last, order>>
accVars == <<acc>>
statVars == <<tbl, tlast>>
vars == <<keySystem, sessions, newSessions, sessionMap, calls, jobs,
          addKeyLog, owed, last, order, dom, acc, tbl, tlast>>

\* ------------------------------------------------------------------------
\* Bounds of the model.

MaxSessions == 2
MaxLoneSessions == 1
MaxSharedUpdates == 1
MaxUpdates == 3
MaxCfgs == 2
MaxIdLen == 2

\* ------------------------------------------------------------------------
\* JavaScript values.

Undefined == "undefined"

\* undefined and the empty string are falsy; every other string is truthy.
Truthy(v) == v # Undefined /\ v # ""

\* ------------------------------------------------------------------------
\* MediaKeyStatusMap.

Statuses == {"usable", "output-restricted", "expired", "internal-error"}

\* The fake key ID, new Uint8Array([0]).
KEY_ID_ == <<0>>

Bytes == {0, 1, 255}

RECURSIVE SeqsUpTo(_, _)
SeqsUpTo(S, n) ==
    IF n = 0 THEN {<<>>}
    ELSE LET shorter == SeqsUpTo(S, n - 1)
         IN shorter \cup {Append(q, x) : q \in shorter, x \in S}

KeyIds == SeqsUpTo(Bytes, MaxIdLen)

MediaKeyStatusMap == [size |-> 0, status_ |-> Undefined]

setStatus_SizeStuck(m, status) == [size |-> 1, status_ |-> status]

setStatus(m, status) ==
    [size |-> IF status = Undefined THEN 0 ELSE 1, status_ |-> status]

getStatus(m) == m.status_

has(m, keyId) == Truthy(m.status_) /\ keyId = KEY_ID_

get(m, keyId) == IF has(m, keyId) THEN m.status_ ELSE Undefined

\* The calls forEach makes to its functor, in order.
forEach(m) == IF Truthy(m.status_) THEN <<m.status_>> ELSE <<>>

entries(m) == IF Truthy(m.status_) THEN <<<<KEY_ID_, m.status_>>>> ELSE <<>>

keys(m) == IF Truthy(m.status_) THEN <<KEY_ID_>> ELSE <<>>

values(m) == IF Truthy(m.status_) THEN <<m.status_>> ELSE <<>>


\* ------------------------------------------------------------------------
\* MediaKeySystemAccess.
\*
\* A content type is <<type, parameters>>; NoType is a capability without a
\* contentType.  The host's canPlayType(contentType, keySystem) is the set
\* `support` of the content types it answers with a non-empty string.

NoType == <<"", "">>

AudioCaps == {<<"audio/mp4", "codecs">>, NoType}
VideoCaps == {<<"video/mp4", "codecs">>, NoType}
ProbeTypes == {<<"audio/mp4", "">>, <<"audio/mp4", "codecs">>,
               <<"video/mp4", "">>, <<"video/mp4", "codecs">>,
               <<"video/webm", "">>}
KeySystems == {"org.w3.clearkey", "com.widevine.alpha"}

Configurations ==
    [audioCapabilities : SeqsUpTo(AudioCaps, 1),
     videoCapabilities : SeqsUpTo(VideoCaps, 1),
     persistentState : {"optional", "required"}]

canPlayType(support, contentType) == contentType \in support

\* cap.contentType.split(';')[0]
StripCodecs(contentType) == <<contentType[1], "">>

\* One of the two loops over a capability list.  st carries the loop's
\* variables: the capabilities pushed to newCfg, success and ranAnyTests.
RECURSIVE ProbeCaps(_, _, _, _)
ProbeCaps(caps, support, strip, st) ==
    IF caps = <<>> THEN st
    ELSE LET cap == Head(caps)
             contentType == IF strip THEN StripCodecs(cap) ELSE cap
             st1 == IF cap[1] = "" THEN st
                    ELSE IF canPlayType(support, contentType)
                         THEN [pushed |-> Append(st.pushed, cap),
                               success |-> TRUE, ranAnyTests |-> TRUE]
                         ELSE [st EXCEPT !.ranAnyTests = TRUE]
         IN ProbeCaps(Tail(caps), support, strip, st1)

ProbeCfg_IgnorePersistence(cfg, support, allowPersistentState, success) ==
    LET a == ProbeCaps(cfg.audioCapabilities, support, TRUE,
                       [pushed |-> <<>>, success |-> success, ranAnyTests |-> FALSE])
        v == ProbeCaps(cfg.videoCapabilities, support, FALSE,
                       [pushed |-> <<>>, success |-> a.success,
                        ranAnyTests |-> a.ranAnyTests])
        s1 == IF ~v.ranAnyTests
              THEN canPlayType(support, <<"video/mp4", "">>)
                   \/ canPlayType(support, <<"video/webm", "">>)
              ELSE v.success
        required == cfg.persistentState = "required"
    IN [success |-> s1,
        newCfg |-> [audioCapabilities |-> a.pushed,
                    videoCapabilities |-> v.pushed,
                    persistentState |-> IF required THEN "required" ELSE "optional",
                    distinctiveIdentifier |-> "optional",
                    sessionTypes |-> IF required THEN <<"persistent-license">>
                                     ELSE <<"temporary">>]]

\* The body of the loop over supportedConfigurations for one cfg; success is
\* the value the variable holds when the iteration starts.
ProbeCfg(cfg, support, allowPersistentState, success) ==
    LET a == ProbeCaps(cfg.audioCapabilities, support, TRUE,
                       [pushed |-> <<>>, success |-> success, ranAnyTests |-> FALSE])
        v == ProbeCaps(cfg.videoCapabilities, support, FALSE,
                       [pushed |-> <<>>, success |-> a.success,
                        ranAnyTests |-> a.ranAnyTests])
        s1 == IF ~v.ranAnyTests
              THEN canPlayType(support, <<"video/mp4", "">>)
                   \/ canPlayType(support, <<"video/webm", "">>)
              ELSE v.success
        required == cfg.persistentState = "required"
        honoured == required /\ allowPersistentState
        s2 == IF required /\ ~allowPersistentState THEN FALSE ELSE s1
    IN [success |-> s2,
        newCfg |-> [audioCapabilities |-> a.pushed,
                    videoCapabilities |-> v.pushed,
                    persistentState |-> IF honoured THEN "required" ELSE "optional",
                    distinctiveIdentifier |-> "optional",
                    sessionTypes |-> IF honoured THEN <<"persistent-license">>
                                     ELSE <<"temporary">>]]

NoConfiguration ==
    [audioCapabilities |-> <<>>, videoCapabilities |-> <<>>,
     persistentState |-> Undefined, distinctiveIdentifier |-> Undefined,
     sessionTypes |-> <<>>]

RECURSIVE ConfigLoop_KeepLooking(_, _, _, _, _, _)
ConfigLoop_KeepLooking(cfgs, support, allowPersistentState, i, success, found) ==
    IF i > Len(cfgs) THEN found
    ELSE LET r == ProbeCfg(cfgs[i], support, allowPersistentState, FALSE)
         IN ConfigLoop_KeepLooking(cfgs, support, allowPersistentState, i + 1,
                success,
                IF r.success
                THEN [thrown |-> FALSE, index |-> i, configuration_ |-> r.newCfg]
                ELSE found)

ConfigLoop_Last(cfgs, support, allowPersistentState, i, success) ==
    ConfigLoop_KeepLooking(cfgs, support, allowPersistentState, i, success,
        [thrown |-> TRUE, index |-> 0, configuration_ |-> NoConfiguration])

\* for (var i = 0; i < supportedConfigurations.length; ++i) from iteration i
\* on (1-based), with the value of success left by the iterations before it;
\* falling out of the loop throws.
RECURSIVE ConfigLoop(_, _, _, _, _)
ConfigLoop(cfgs, support, allowPersistentState, i, success) ==
    IF i > Len(cfgs)
    THEN [thrown |-> TRUE, index |-> 0, configuration_ |-> NoConfiguration]
    ELSE LET r == ProbeCfg(cfgs[i], support, allowPersistentState, success)
         IN IF r.success
            THEN [thrown |-> FALSE, index |-> i, configuration_ |-> r.newCfg]
            ELSE ConfigLoop(cfgs, support, allowPersistentState, i + 1, r.success)

\* new MediaKeySystemAccess(keySystem, supportedConfigurations)
MediaKeySystemAccess(ks, supportedConfigurations, support) ==
    LET clearkey == ks = "org.w3.clearkey"
        r == ConfigLoop(supportedConfigurations, support, ~clearkey, 1, FALSE)
    IN [thrown |-> r.thrown,
        index |-> r.index,
        keySystem |-> ks,
        internalKeySystem_ |-> IF clearkey THEN "webkit-org.w3.clearkey" ELSE ks,
        configuration_ |-> r.configuration_]

\* ------------------------------------------------------------------------
\* MediaKeys and MediaKeySession.
\*
\* A session is a record of the fields of MediaKeySession.  A PublicPromise
\* is known by its state: the generate promise of a session by genState
\* (generatePromise_ tells whether the slot still holds it), the closed
\* promise by closed, and the promise of the k-th update() call by
\* calls[k].state (updatePromise_ holds k, or 0 for null).

Ids == {"s1", "s2"}

\* The sessionId of an event that carries none.
NoId == ""

EventIds == Ids \cup {NoId}

InternalKeySystems == {"webkit-org.w3.clearkey", "com.widevine.alpha"}

\* The responses update() is given: for ClearKey a JSON Web Key Set whose key
\* is of type 'oct', one whose key is of another type, or bytes that are no
\* such JSON text; for any other key system the raw key.
Responses(ks) ==
    IF ks = "webkit-org.w3.clearkey" THEN {"oct", "notoct", "malformed"}
    ELSE {"raw"}

InitDatas == {"initData"}
LoadIds == {"abc123", ""}

\* new MediaKeySession(media, keySystem, sessionType)
MediaKeySession(sessionType) ==
    [type_ |-> sessionType,
     initialized_ |-> FALSE,
     generatePromise_ |-> FALSE,
     genState |-> "none",
     updatePromise_ |-> 0,
     sessionId |-> "",
     closed |-> "pending",
     keyStatuses |-> MediaKeyStatusMap,
     retry |-> <<>>]

\* The program's state as one value, which the operations below transform;
\* host and events collect the host primitives an operation invokes and the
\* events it dispatches.
St ==
    [sessions |-> sessions, newSessions |-> newSessions,
     sessionMap |-> sessionMap, calls |-> calls, jobs |-> jobs,
     addKeyLog |-> addKeyLog, owed |-> owed, host |-> <<>>, events |-> <<>>]

Invoke(st, fn, arg, sid) ==
    [st EXCEPT !.host = Append(@, [fn |-> fn, arg |-> arg, sessionId |-> sid])]

Dispatch(st, type, detail, s) ==
    [st EXCEPT !.events = Append(@, [type |-> type, detail |-> detail, target |-> s])]

\* resolve() or reject() of the k-th update promise: a settled promise stays
\* as it is; settling queues one job per reaction registered on it, in the
\* order of registration.
SettleCall(st, k, how) ==
    IF st.calls[k].state # "pending" THEN st
    ELSE [st EXCEPT
            !.calls[k].state = how,
            !.calls[k].waiters = <<>>,
            !.jobs = @ \o [i \in 1..Len(st.calls[k].waiters) |->
                             [kind |-> "then", k |-> st.calls[k].waiters[i],
                              how |-> how]]]

findSession__NoShift(st, sessionId) ==
    IF st.sessionMap[sessionId] # 0
    THEN [session |-> st.sessionMap[sessionId], st |-> st]
    ELSE IF st.newSessions # <<>>
    THEN LET s == Head(st.newSessions)
         IN [session |-> s,
             st |-> [st EXCEPT !.sessions[s].sessionId = sessionId,
                               !.sessionMap[sessionId] = s]]
    ELSE [session |-> 0, st |-> st]

findSession__Newest(st, sessionId) ==
    IF st.sessionMap[sessionId] # 0
    THEN [session |-> st.sessionMap[sessionId], st |-> st]
    ELSE IF st.newSessions # <<>>
    THEN LET s == st.newSessions[Len(st.newSessions)]
         IN [session |-> s,
             st |-> [st EXCEPT !.newSessions = SubSeq(@, 1, Len(@) - 1),
                               !.sessions[s].sessionId = sessionId,
                               !.sessionMap[sessionId] = s]]
    ELSE [session |-> 0, st |-> st]

\* MediaKeys.prototype.findSession_: the session found (0: null) and the
\* state it leaves.
findSession_(st, sessionId) ==
    IF st.sessionMap[sessionId] # 0
    THEN [session |-> st.sessionMap[sessionId], st |-> st]
    ELSE IF st.newSessions # <<>>
    THEN LET s == Head(st.newSessions)
         IN [session |-> s,
             st |-> [st EXCEPT !.newSessions = Tail(@),
                               !.sessions[s].sessionId = sessionId,
                               !.sessionMap[sessionId] = s]]
    ELSE [session |-> 0, st |-> st]

\* MediaKeySession.prototype.updateKeyStatus_
updateKeyStatus_(st, s, status) ==
    Dispatch([st EXCEPT !.sessions[s].keyStatuses = setStatus(@, status)],
             "keystatuseschange", status, s)

\* MediaKeySession.prototype.generated
generated(st, s) ==
    IF st.sessions[s].generatePromise_
    THEN [st EXCEPT !.sessions[s].genState = "resolved",
                    !.sessions[s].generatePromise_ = FALSE]
    ELSE st

ready_EverySession(st, s) ==
    LET st1 == updateKeyStatus_(st, s, "usable")
        k == st1.sessions[s].updatePromise_
        st2 == IF k # 0 THEN SettleCall(st1, k, "resolved") ELSE st1
    IN [st2 EXCEPT !.sessions =
           [x \in 1..Len(@) |->
               [@[x] EXCEPT !.updatePromise_ = IF x = s THEN 0 ELSE @,
                            !.keyStatuses = setStatus(@, "usable")]]]

ready_OnlyIfUpdating(st, s) ==
    LET k == st.sessions[s].updatePromise_
    IN IF k # 0
       THEN [SettleCall(updateKeyStatus_(st, s, "usable"), k, "resolved")
               EXCEPT !.sessions[s].updatePromise_ = 0]
       ELSE st

\* MediaKeySession.prototype.ready
ready(st, s) ==
    LET st1 == updateKeyStatus_(st, s, "usable")
        k == st1.sessions[s].updatePromise_
        st2 == IF k # 0 THEN SettleCall(st1, k, "resolved") ELSE st1
    IN [st2 EXCEPT !.sessions[s].updatePromise_ = 0]

handleError_SystemCodeFirst(st, s, sessionId, code, systemCode) ==
    IF ~Truthy(sessionId) /\ st.sessions[s].generatePromise_
    THEN [st EXCEPT !.sessions[s].genState = "rejected",
                    !.sessions[s].generatePromise_ = FALSE]
    ELSE IF Truthy(sessionId) /\ st.sessions[s].updatePromise_ # 0
    THEN [SettleCall(st, st.sessions[s].updatePromise_, "rejected")
            EXCEPT !.sessions[s].updatePromise_ = 0]
    ELSE IF systemCode = 1
    THEN updateKeyStatus_(st, s, "expired")
    ELSE IF code = "MEDIA_KEYERR_OUTPUT"
    THEN updateKeyStatus_(st, s, "output-restricted")
    ELSE updateKeyStatus_(st, s, "internal-error")

\* MediaKeySession.prototype.handleError, for an event with this sessionId,
\* errorCode.code and systemCode.
handleError(st, s, sessionId, code, systemCode) ==
    IF ~Truthy(sessionId) /\ st.sessions[s].generatePromise_
    THEN [st EXCEPT !.sessions[s].genState = "rejected",
                    !.sessions[s].generatePromise_ = FALSE]
    ELSE IF Truthy(sessionId) /\ st.sessions[s].updatePromise_ # 0
    THEN [SettleCall(st, st.sessions[s].updatePromise_, "rejected")
            EXCEPT !.sessions[s].updatePromise_ = 0]
    ELSE IF code = "MEDIA_KEYERR_OUTPUT"
    THEN updateKeyStatus_(st, s, "output-restricted")
    ELSE IF systemCode = 1
    THEN updateKeyStatus_(st, s, "expired")
    ELSE updateKeyStatus_(st, s, "internal-error")

\* The data generate_ hands to webkitGenerateKeyRequest, as <<tag, payload>>;
\* load() passes null for initData, which reads as the empty string.
MangleInitData(type, initData, offlineSessionId) ==
    IF type = "persistent-license"
    THEN IF ~Truthy(offlineSessionId) THEN <<"PERSISTENT|", initData>>
         ELSE <<"LOAD_SESSION|", offlineSessionId>>
    ELSE <<"", initData>>

generate__NoInitCheck(st, s, initData, offlineSessionId, outcome) ==
    LET data == MangleInitData(st.sessions[s].type_, initData, offlineSessionId)
        st1 == Invoke([st EXCEPT !.sessions[s].initialized_ = TRUE,
                                 !.sessions[s].generatePromise_ = TRUE,
                                 !.sessions[s].genState = "pending"],
                      "webkitGenerateKeyRequest", data, "")
    IN [st |-> st1, result |-> "pending", reason |-> ""]

\* MediaKeySession.prototype.generate_; outcome is what the host's
\* webkitGenerateKeyRequest does when it is invoked: "ok", or the name of the
\* exception it throws.
generate_(st, s, initData, offlineSessionId, outcome) ==
    IF st.sessions[s].initialized_
    THEN [st |-> st, result |-> "rejected",
          reason |-> "The session is already initialized."]
    ELSE LET data == MangleInitData(st.sessions[s].type_, initData,
                                    offlineSessionId)
             st1 == Invoke([st EXCEPT !.sessions[s].initialized_ = TRUE,
                                      !.sessions[s].generatePromise_ = TRUE,
                                      !.sessions[s].genState = "pending"],
                           "webkitGenerateKeyRequest", data, "")
         IN IF outcome = "ok"
            THEN [st |-> st1, result |-> "pending", reason |-> ""]
            ELSE IF outcome # "InvalidStateError"
            THEN [st |-> [st1 EXCEPT !.sessions[s].generatePromise_ = FALSE,
                                     !.sessions[s].genState = "rejected"],
                  result |-> "rejected", reason |-> outcome]
            ELSE [st |-> [st1 EXCEPT !.sessions[s].retry = <<data>>],
                  result |-> "pending", reason |-> ""]

\* The function generate_ hands to setTimeout.
retryGenerate(st, s, throws) ==
    LET st1 == Invoke([st EXCEPT !.sessions[s].retry = <<>>],
                      "webkitGenerateKeyRequest", st.sessions[s].retry[1], "")
    IN IF throws /\ st1.sessions[s].generatePromise_
       THEN [st1 EXCEPT !.sessions[s].genState = "rejected",
                        !.sessions[s].generatePromise_ = FALSE]
       ELSE st1

\* MediaKeySession.prototype.update_ for the k-th update() call, on its
\* session; throws tells whether the host's webkitAddKey throws when it is
\* invoked.  threw: update_ ends with an exception.  A reaction registered
\* on a promise that is already settled is queued as a job at once.
update_(st, ks, k, throws) ==
    LET s == st.calls[k].s
        current == st.sessions[s].updatePromise_
    IN IF current # 0
       THEN [st |-> IF st.calls[current].state = "pending"
                    THEN [st EXCEPT !.calls[current].waiters = Append(@, k)]
                    ELSE [st EXCEPT !.jobs = Append(@,
                             [kind |-> "then", k |-> k,
                              how |-> st.calls[current].state])],
             threw |-> FALSE]
       ELSE LET st1 == [st EXCEPT !.sessions[s].updatePromise_ = k]
                clearkey == ks = "webkit-org.w3.clearkey"
                response == st.calls[k].response
            IN IF clearkey /\ response = "malformed"
               THEN [st |-> st1, threw |-> TRUE]
               ELSE LET st2 == IF clearkey /\ response # "oct"
                               THEN [SettleCall(st1, k, "rejected")
                                       EXCEPT !.sessions[s].updatePromise_ = 0]
                               ELSE st1
                        st3 == Invoke([st2 EXCEPT !.addKeyLog = Append(@, k)],
                                      "webkitAddKey", <<"", response>>,
                                      st2.sessions[s].sessionId)
                    IN IF ~throws
                       THEN [st |-> [st3 EXCEPT !.owed[s] = @ + 1],
                             threw |-> FALSE]
                       ELSE IF st3.sessions[s].updatePromise_ = 0
                       THEN [st |-> st3, threw |-> TRUE]
                       ELSE [st |-> [SettleCall(st3, k, "rejected")
                                       EXCEPT !.sessions[s].updatePromise_ = 0],
                             threw |-> FALSE]

close_NoIdCheck(st, s) ==
    LET st1 == IF st.sessions[s].type_ # "persistent-license"
               THEN Invoke(st, "webkitCancelKeyRequest", <<"", "">>,
                           st.sessions[s].sessionId)
               ELSE st
    IN [st1 EXCEPT !.sessions[s].closed =
                      IF @ = "pending" THEN "resolved" ELSE @]

\* MediaKeySession.prototype.close: the state it leaves; it returns the
\* closed promise.
close(st, s) ==
    IF st.sessions[s].type_ # "persistent-license"
       /\ ~Truthy(st.sessions[s].sessionId)
    THEN [st EXCEPT !.sessions[s].closed =
                       IF @ = "pending" THEN "rejected" ELSE @]
    ELSE LET st1 == IF st.sessions[s].type_ # "persistent-license"
                    THEN Invoke(st, "webkitCancelKeyRequest", <<"", "">>,
                                st.sessions[s].sessionId)
                    ELSE st
         IN [st1 EXCEPT !.sessions[s].closed =
                           IF @ = "pending" THEN "resolved" ELSE @]

remove_NoTypeCheck(st, s) ==
    LET st1 == close(st, s)
    IN [st |-> st1, result |-> st1.sessions[s].closed,
        reason |-> IF st1.sessions[s].closed = "rejected"
                   THEN "The session is not callable." ELSE ""]

\* MediaKeySession.prototype.remove
remove(st, s) ==
    IF st.sessions[s].type_ # "persistent-license"
    THEN [st |-> st, result |-> "rejected", reason |-> "Not a persistent session."]
    ELSE LET st1 == close(st, s)
         IN [st |-> st1, result |-> st1.sessions[s].closed,
             reason |-> IF st1.sessions[s].closed = "rejected"
                        THEN "The session is not callable." ELSE ""]

\* ------------------------------------------------------------------------
\* The state machine of one MediaKeys object.

SessionTypes == {"temporary", "persistent-license"}
GenerateOutcomes == {"ok", "InvalidStateError", "NotSupportedError"}
ErrorCodes == {"MEDIA_KEYERR_OUTPUT", "MEDIA_KEYERR_UNKNOWN"}
SystemCodes == {1, 45}

Live == 1..Len(sessions)

Op(op, s, arg, result, reason) ==
    [op |-> op, s |-> s, arg |-> arg, result |-> result, reason |-> reason,
     code |-> "", systemCode |-> 0]

\* The step that leaves the program in state st after operation o.
Commit(st, o) ==
    /\ sessions' = st.sessions
    /\ newSessions' = st.newSessions
    /\ sessionMap' = st.sessionMap
    /\ calls' = st.calls
    /\ jobs' = st.jobs
    /\ addKeyLog' = st.addKeyLog
    /\ owed' = st.owed
    /\ last' = [op |-> o.op, s |-> o.s, arg |-> o.arg, result |-> o.result,
                reason |-> o.reason, code |-> o.code,
                systemCode |-> o.systemCode,
                host |-> st.host, events |-> st.events]
    /\ order' =
          [requested |->
              IF /\ \E i \in 1..Len(st.host) :
                       st.host[i].fn = "webkitGenerateKeyRequest"
                 /\ \A i \in 1..Len(order.requested) : order.requested[i] # o.s
              THEN Append(order.requested, o.s) ELSE order.requested,
           assigned |->
              IF Len(st.newSessions) < Len(newSessions)
              THEN Append(order.assigned, <<o.arg, Head(newSessions)>>)
              ELSE order.assigned]
    /\ UNCHANGED <<keySystem, dom, acc, tbl, tlast>>

\* ------------------------------------------------------------------------
\* setMediaKeys and MediaKeys.prototype.setMedia, over the media elements
\* Elements and the MediaKeys objects Controllers.  listeners[k] is the set of
\* <<element, event type>> the eventManager_ of k listens to.

Elements == {"e1", "e2"}
Controllers == {"k1", "k2"}
Null == "null"

PrefixedEvents ==
    {"webkitneedkey", "webkitkeymessage", "webkitkeyadded", "webkitkeyerror"}

\* No element has mediaKeys and no MediaKeys object has a media element.
NoBinding ==
    [mediaKeys |-> [e \in Elements |-> Null],
     media_ |-> [k \in Controllers |-> Null],
     listeners |-> [k \in Controllers |-> {}],
     bound |-> [k \in Controllers |-> Null],
     call |-> [element |-> Null, mediaKeys |-> Null, old |-> Null]]

setMedia_KeepListeners(d, k, media) ==
    [d EXCEPT !.media_[k] = media,
              !.listeners[k] =
                  IF media # Null
                  THEN @ \cup {<<media, type>> : type \in PrefixedEvents}
                  ELSE {}]

\* MediaKeys.prototype.setMedia on the MediaKeys object k.
setMedia(d, k, media) ==
    [d EXCEPT !.media_[k] = media,
              !.listeners[k] =
                  IF media # Null
                  THEN {<<media, type>> : type \in PrefixedEvents}
                  ELSE {}]

\* setMediaKeys, called on element with mediaKeys (a MediaKeys object or
\* null).  bound and call are history: the element each MediaKeys object was
\* last set on, and this call with the mediaKeys the element had before.
SetMediaKeys(element, mediaKeys) ==
    LET oldMediaKeys == dom.mediaKeys[element]
        d1 == IF oldMediaKeys # Null /\ oldMediaKeys # mediaKeys
              THEN setMedia(dom, oldMediaKeys, Null) ELSE dom
        d2 == [d1 EXCEPT !.mediaKeys[element] = mediaKeys]
        d3 == IF mediaKeys # Null THEN setMedia(d2, mediaKeys, element) ELSE d2
    IN /\ dom' = [d3 EXCEPT
                    !.bound = IF mediaKeys # Null
                              THEN [@ EXCEPT ![mediaKeys] = element] ELSE @,
                    !.call = [element |-> element, mediaKeys |-> mediaKeys,
                              old |-> oldMediaKeys]]
       /\ UNCHANGED <<mainVars, acc, tbl, tlast>>

NextMedia ==
    \E element \in Elements, mediaKeys \in Controllers \cup {Null} :
        SetMediaKeys(element, mediaKeys)

MainInit ==
    /\ sessions = <<>>
    /\ newSessions = <<>>
    /\ sessionMap = [id \in EventIds |-> 0]
    /\ calls = <<>>
    /\ jobs = <<>>
    /\ addKeyLog = <<>>
    /\ owed = [s \in 1..MaxSessions |-> 0]
    /\ last = [op |-> "new", s |-> 0, arg |-> "", result |-> "", reason |-> "",
               code |-> "", systemCode |-> 0, host |-> <<>>, events |-> <<>>]
    /\ order = [requested |-> <<>>, assigned |-> <<>>]
    /\ dom = NoBinding

CreateSession_AnyType(opt_sessionType) ==
    /\ Len(sessions) < MaxSessions
    /\ LET sessionType == IF Truthy(opt_sessionType) THEN opt_sessionType
                          ELSE "temporary"
           s == Len(sessions) + 1
       IN Commit([St EXCEPT
                    !.sessions = Append(@, MediaKeySession(sessionType)),
                    !.newSessions = Append(@, s)],
                 Op("createSession", s, opt_sessionType, "session", ""))

\* MediaKeys.prototype.createSession
CreateSession(opt_sessionType) ==
    LET sessionType == IF Truthy(opt_sessionType) THEN opt_sessionType
                       ELSE "temporary"
    IN IF sessionType # "temporary" /\ sessionType # "persistent-license"
       THEN Commit(St, Op("createSession", 0, opt_sessionType, "thrown",
                          "TypeError"))
       ELSE /\ Len(sessions) < MaxSessions
            /\ LET s == Len(sessions) + 1
               IN Commit([St EXCEPT
                            !.sessions = Append(@, MediaKeySession(sessionType)),
                            !.newSessions = Append(@, s)],
                         Op("createSession", s, opt_sessionType, "session", ""))

\* MediaKeySession.prototype.generateRequest
GenerateRequest(s, initData, outcome) ==
    LET r == generate_(St, s, initData, "", outcome)
    IN Commit(r.st, Op("generateRequest", s, initData, r.result, r.reason))

\* MediaKeySession.prototype.load
Load(s, sessionId, outcome) ==
    IF sessions[s].type_ = "persistent-license"
    THEN LET r == generate_(St, s, "", sessionId, outcome)
         IN Commit(r.st, Op("load", s, sessionId, r.result, r.reason))
    ELSE Commit(St, Op("load", s, sessionId, "rejected",
                       "Not a persistent session."))

\* MediaKeySession.prototype.update, called with a session id assigned (the
\* function asserts it).  An exception of update_ leaves the caller without
\* the promise.
Update(s, response, throws) ==
    /\ Len(calls) < MaxUpdates
    /\ Truthy(sessions[s].sessionId)
    /\ LET k == Len(calls) + 1
           st0 == [St EXCEPT !.calls = Append(@,
                      [s |-> s, response |-> response, state |-> "pending",
                       waiters |-> <<>>, returned |-> TRUE])]
           r == update_(st0, keySystem, k, throws)
       IN IF r.threw
          THEN Commit([r.st EXCEPT !.calls[k].returned = FALSE],
                      Op("update", s, response, "thrown", ""))
          ELSE Commit(r.st, Op("update", s, response, r.st.calls[k].state, ""))

\* MediaKeySession.prototype.close
Close(s) ==
    LET st1 == close(St, s)
    IN Commit(st1, Op("close", s, "", st1.sessions[s].closed,
                      IF st1.sessions[s].closed = "rejected"
                      THEN "The session is not callable." ELSE ""))

\* MediaKeySession.prototype.remove
Remove(s) ==
    LET r == remove(St, s)
    IN Commit(r.st, Op("remove", s, "", r.result, r.reason))

\* The job queue runs its first job: a reaction of
\* updatePromise_.then(update_).catch(update_).  The then-reaction of a
\* resolved promise calls update_, and hands an exception of it to the
\* catch-reaction; the then-reaction of a rejected promise passes the
\* rejection on to the catch-reaction, which calls update_.
RunJob(throws) ==
    /\ jobs # <<>>
    /\ LET job == Head(jobs)
           st0 == [St EXCEPT !.jobs = Tail(@)]
           again == [kind |-> "catch", k |-> job.k, how |-> "rejected"]
       IN IF job.kind = "then" /\ job.how = "rejected"
          THEN /\ ~throws
               /\ Commit([st0 EXCEPT !.jobs = Append(@, again)],
                         Op("job", st0.calls[job.k].s, job.kind, "passed", ""))
          ELSE LET r == update_(st0, keySystem, job.k, throws)
               IN IF r.threw /\ job.kind = "then"
                  THEN Commit([r.st EXCEPT !.jobs = Append(@, again)],
                              Op("job", st0.calls[job.k].s, job.kind, "thrown", ""))
                  ELSE Commit(r.st,
                              Op("job", st0.calls[job.k].s, job.kind,
                                 IF r.threw THEN "thrown" ELSE "returned", ""))

\* The timer generate_ set fires; the result tells whether the host's
\* webkitGenerateKeyRequest threw this time.
RetryTimer(s, throws) ==
    /\ jobs = <<>>
    /\ sessions[s].retry # <<>>
    /\ Commit(retryGenerate(St, s, throws),
              Op("retry", s, "", IF throws THEN "thrown" ELSE "returned", ""))

\* The host answered a webkitAddKey of session s when it sends an event that
\* carries the session's id.
Answered(st, s, sessionId) ==
    IF s # 0 /\ Truthy(sessionId) /\ st.owed[s] > 0
    THEN [st EXCEPT !.owed[s] = @ - 1]
    ELSE st

KeyMessage_NewIfPending(sessionId) ==
    /\ jobs = <<>>
    /\ LET f == findSession_(St, sessionId)
           s == f.session
       IN IF s = 0
          THEN Commit(f.st, Op("webkitkeymessage", 0, sessionId, "dropped", ""))
          ELSE LET isNew == f.st.sessions[s].generatePromise_
                   st1 == generated(f.st, s)
                   st2 == Dispatch(st1, "message",
                                   IF isNew THEN "licenserequest"
                                   ELSE "licenserenewal", s)
               IN Commit(st2, Op("webkitkeymessage", s, sessionId, "routed", ""))

\* MediaKeys.prototype.onWebkitKeyMessage_
KeyMessage(sessionId) ==
    /\ jobs = <<>>
    /\ LET f == findSession_(St, sessionId)
           s == f.session
       IN IF s = 0
          THEN Commit(f.st, Op("webkitkeymessage", 0, sessionId, "dropped", ""))
          ELSE LET isNew == getStatus(f.st.sessions[s].keyStatuses) = Undefined
                   st1 == generated(f.st, s)
                   st2 == Dispatch(st1, "message",
                                   IF isNew THEN "licenserequest"
                                   ELSE "licenserenewal", s)
               IN Commit(st2, Op("webkitkeymessage", s, sessionId, "routed", ""))

\* MediaKeys.prototype.onWebkitKeyAdded_
KeyAdded(sessionId) ==
    /\ jobs = <<>>
    /\ LET f == findSession_(St, sessionId)
           s == f.session
       IN IF s = 0
          THEN Commit(f.st, Op("webkitkeyadded", 0, sessionId, "dropped", ""))
          ELSE Commit(Answered(ready(f.st, s), s, sessionId),
                      Op("webkitkeyadded", s, sessionId, "routed", ""))

KeyError_OldestSession(sessionId, code, systemCode) ==
    /\ jobs = <<>>
    /\ LET f == findSession_(St, sessionId)
           s == IF f.session = 0 /\ sessions # <<>> THEN 1 ELSE f.session
           o == [Op("webkitkeyerror", f.session, sessionId,
                    IF f.session = 0 THEN "dropped" ELSE "routed", "")
                 EXCEPT !.code = code, !.systemCode = systemCode]
       IN IF s = 0
          THEN Commit(f.st, o)
          ELSE Commit(Answered(handleError(f.st, s, sessionId, code, systemCode),
                               s, sessionId), o)

\* MediaKeys.prototype.onWebkitKeyError_
KeyError(sessionId, code, systemCode) ==
    /\ jobs = <<>>
    /\ LET f == findSession_(St, sessionId)
           s == f.session
           o == [Op("webkitkeyerror", s, sessionId,
                    IF s = 0 THEN "dropped" ELSE "routed", "")
                 EXCEPT !.code = code, !.systemCode = systemCode]
       IN IF s = 0
          THEN Commit(f.st, o)
          ELSE Commit(Answered(handleError(f.st, s, sessionId, code, systemCode),
                               s, sessionId), o)

AccessIdle == [phase |-> "idle"]

StatusIdle == [op |-> "idle"]

Init ==
    /\ keySystem \in InternalKeySystems
    /\ MainInit
    /\ acc = AccessIdle
    /\ tbl = MediaKeyStatusMap
    /\ tlast = StatusIdle

\* The calls of an application that makes one session and never calls
\* update(), the host's events and the timer.
Next ==
    \/ \E t \in SessionTypes \cup {Undefined, "persistent-release"} :
          CreateSession(t) /\ Len(sessions') <= MaxLoneSessions
    \/ \E s \in Live, d \in InitDatas, o \in GenerateOutcomes :
          GenerateRequest(s, d, o)
    \/ \E s \in Live, id \in LoadIds, o \in GenerateOutcomes : Load(s, id, o)
    \/ \E s \in Live : Close(s)
    \/ \E s \in Live : Remove(s)
    \/ \E s \in Live, t \in BOOLEAN : RetryTimer(s, t)
    \/ \E id \in EventIds : KeyMessage(id)
    \/ \E id \in EventIds : KeyAdded(id)
    \/ \E id \in EventIds, c \in ErrorCodes, sc \in SystemCodes :
          KeyError(id, c, sc)

Spec == Init /\ [][Next]_vars

\* The calls of an application that requests a license and then updates the
\* session, the host's events, and the job queue.
NextUpdate ==
    \/ \E t \in SessionTypes : CreateSession(t) /\ Len(sessions') <= MaxLoneSessions
    \/ \E s \in Live, d \in InitDatas : GenerateRequest(s, d, "ok")
    \/ \E s \in Live, r \in Responses(keySystem), t \in BOOLEAN :
          Update(s, r, t)
    \/ \E t \in BOOLEAN : RunJob(t)
    \/ \E id \in Ids : KeyMessage(id)
    \/ \E id \in Ids : KeyAdded(id)
    \/ \E id \in Ids : KeyError(id, "MEDIA_KEYERR_UNKNOWN", 45)

SpecUpdate == Init /\ [][NextUpdate]_vars

SpecMedia == Init /\ [][NextMedia]_vars

\* Two sessions on one MediaKeys object, every call of a session, and the
\* events of a host that names the session, for a key system whose
\* responses are raw keys.  With MaxSharedUpdates update() calls no call is
\* deferred, so the job queue stays empty.
NextIsolation ==
    \/ \E t \in SessionTypes : CreateSession(t)
    \/ \E s \in Live, d \in InitDatas : GenerateRequest(s, d, "ok")
    \/ \E s \in Live : Load(s, "abc123", "ok")
    \/ \E s \in Live, r \in Responses(keySystem) :
          Update(s, r, FALSE) /\ Len(calls') <= MaxSharedUpdates
    \/ \E s \in Live : Close(s)
    \/ \E s \in Live : Remove(s)
    \/ \E id \in Ids : KeyMessage(id)
    \/ \E id \in Ids : KeyAdded(id)
    \/ \E id \in Ids : KeyError(id, "MEDIA_KEYERR_UNKNOWN", 45)

InitIsolation == Init /\ keySystem = "com.widevine.alpha"

SpecIsolation == InitIsolation /\ [][NextIsolation]_vars

\* Several sessions on one MediaKeys object: the application creates them and
\* requests licenses, the host answers with events.
NextRouting ==
    \/ \E t \in SessionTypes \cup {Undefined, "", "persistent-release"} :
          CreateSession(t)
    \/ \E s \in Live, d \in InitDatas : GenerateRequest(s, d, "ok")
    \/ \E id \in EventIds : KeyMessage(id)
    \/ \E id \in EventIds : KeyAdded(id)
    \/ \E id \in EventIds, c \in ErrorCodes : KeyError(id, c, 45)

SpecRouting == Init /\ [][NextRouting]_vars

\* ------------------------------------------------------------------------
\* The MediaKeySystemAccess constructor, on every key system, every sequence
\* of at most MaxCfgs configurations and every answer of the host's
\* canPlayType; then createMediaKeys.

InitAccess ==
    /\ keySystem = ""
    /\ MainInit
    /\ tbl = MediaKeyStatusMap
    /\ tlast = StatusIdle
    /\ \E ks \in KeySystems, cfgs \in SeqsUpTo(Configurations, MaxCfgs),
          support \in SUBSET ProbeTypes :
          acc = [phase |-> "requested", keySystem |-> ks,
                 supportedConfigurations |-> cfgs, support |-> support]

\* requestMediaKeySystemAccess: the constructor runs; an exception of it
\* rejects the promise.
RequestAccess ==
    /\ acc.phase = "requested"
    /\ acc' = [phase |-> "constructed", keySystem |-> acc.keySystem,
               supportedConfigurations |-> acc.supportedConfigurations,
               support |-> acc.support,
               access |-> MediaKeySystemAccess(acc.keySystem,
                              acc.supportedConfigurations, acc.support)]
    /\ UNCHANGED <<mainVars, dom, tbl, tlast>>

\* MediaKeySystemAccess.prototype.createMediaKeys
CreateMediaKeys ==
    /\ acc.phase = "constructed"
    /\ ~acc.access.thrown
    /\ keySystem = ""
    /\ keySystem' = acc.access.internalKeySystem_
    /\ UNCHANGED <<sessions, newSessions, sessionMap, calls, jobs, addKeyLog,
                   owed, last, order, dom, acc, tbl, tlast>>

NextAccess == RequestAccess \/ CreateMediaKeys

SpecAccess == InitAccess /\ [][NextAccess]_vars

\* ------------------------------------------------------------------------
\* One MediaKeyStatusMap and the calls of its methods.  tlast.set is the
\* argument of the latest setStatus (undefined before the first).

InitStatus ==
    /\ keySystem = ""
    /\ MainInit
    /\ acc = AccessIdle
    /\ tbl = MediaKeyStatusMap
    /\ tlast = [op |-> "new", arg |-> <<>>, result |-> <<>>, set |-> Undefined]

Called(op, arg, result) ==
    /\ tlast' = [op |-> op, arg |-> arg, result |-> result, set |-> tlast.set]
    /\ UNCHANGED <<mainVars, dom, acc, tbl>>

SetStatus(status) ==
    /\ tbl' = setStatus(tbl, status)
    /\ tlast' = [op |-> "setStatus", arg |-> <<>>, result |-> <<>>,
                 set |-> status]
    /\ UNCHANGED <<mainVars, dom, acc>>

Get(keyId) == Called("get", keyId, <<get(tbl, keyId)>>)

Has(keyId) == Called("has", keyId, <<has(tbl, keyId)>>)

ForEach == Called("forEach", <<>>, forEach(tbl))

Entries == Called("entries", <<>>, entries(tbl))

Keys == Called("keys", <<>>, keys(tbl))

Values == Called("values", <<>>, values(tbl))

NextStatus ==
    \/ \E status \in Statuses \cup {Undefined} : SetStatus(status)
    \/ \E keyId \in KeyIds : Get(keyId)
    \/ \E keyId \in KeyIds : Has(keyId)
    \/ ForEach
    \/ Entries
    \/ Keys
    \/ Values

SpecStatus == InitStatus /\ [][NextStatus]_vars

\* ------------------------------------------------------------------------
\* The claims.

\* The update() calls on session s that returned their promise, in call order.
CallsOf(s) ==
    SelectSeq([k \in 1..Len(calls) |-> k],
              LAMBDA k : calls[k].s = s /\ calls[k].returned)

\* The update() calls whose response webkitAddKey received for session s, in
\* the order it received them.
AddKeysOf(s) == SelectSeq(addKeyLog, LAMBDA k : calls[k].s = s /\ calls[k].returned)

Forwarded(k) == \E i \in 1..Len(addKeyLog) : addKeyLog[i] = k

\* C1: webkitAddKey is invoked exactly once per update() call and receives
\* the responses in call order: at every moment the responses it has
\* received for a session are the session's first update() calls, each once,
\* in the order of the calls, and no promise is settled before its response
\* was handed over.
C1_AddKeyInCallOrder ==
    \A s \in Live :
        /\ Len(AddKeysOf(s)) <= Len(CallsOf(s))
        /\ \A i \in 1..Len(AddKeysOf(s)) :
              i <= Len(CallsOf(s)) => AddKeysOf(s)[i] = CallsOf(s)[i]
        /\ \A i \in 1..Len(CallsOf(s)) :
              calls[CallsOf(s)[i]].state # "pending" => Forwarded(CallsOf(s)[i])

\* C2: updates of one session are serialized: a response is handed to
\* webkitAddKey only when the promise of every earlier update() of the session
\* is settled, and at most one response handed over has its promise
\* unsettled.
C2_UpdatesSerialized ==
    \A s \in Live :
        /\ \A i, j \in 1..Len(CallsOf(s)) :
              (i < j /\ Forwarded(CallsOf(s)[j]))
                  => calls[CallsOf(s)[i]].state # "pending"
        /\ Cardinality({k \in 1..Len(calls) :
              calls[k].s = s /\ Forwarded(k) /\ calls[k].state = "pending"}) <= 1

\* C3: every promise update() returned is eventually settled when the host
\* answers every webkitAddKey and the promise jobs run.  Stated on the states:
\* while such a promise is unsettled, a promise job is waiting to run or the
\* host owes the session an answer (otherwise nothing that is bound to happen
\* settles it).
C3_UpdateSettles ==
    \A k \in 1..Len(calls) :
        (calls[k].returned /\ calls[k].state = "pending")
            => (jobs # <<>> \/ owed[calls[k].s] > 0)

IsGenerateCall(o) == o.op = "generateRequest" \/ o.op = "load"

\* C4, as claimed: a generateRequest or load call on an initialized session
\* is rejected with 'already initialized' and invokes no host primitive.
C4_AlwaysAlreadyInitialized ==
    [][\A s \in Live :
          (sessions[s].initialized_ /\ IsGenerateCall(last') /\ last'.s = s)
              => /\ last'.result = "rejected"
                 /\ last'.reason = "The session is already initialized."
                 /\ last'.host = <<>>]_vars

\* C4, amended: a generateRequest or load call on an initialized session is
\* rejected, invokes no host primitive and leaves the session as it was; the
\* error is 'already initialized', except for load on a temporary session,
\* which is 'not a persistent session'.
C4_SingleShot ==
    [][\A s \in Live :
          (sessions[s].initialized_ /\ IsGenerateCall(last') /\ last'.s = s)
              => /\ last'.result = "rejected"
                 /\ last'.reason =
                        IF last'.op = "load" /\ sessions[s].type_ = "temporary"
                        THEN "Not a persistent session."
                        ELSE "The session is already initialized."
                 /\ last'.host = <<>>
                 /\ sessions' = sessions]_vars

\* A second generateRequest or load was rejected as 'already initialized'
\* after the session's first request had failed.
C4_Witness ==
    /\ IsGenerateCall(last)
    /\ last.reason = "The session is already initialized."
    /\ sessions[last.s].genState = "rejected"

\* C5: close() on a temporary session without a session id rejects with 'not
\* callable', invokes no host primitive, and leaves the session's id, status
\* and pending promises and the controller's queue and table unchanged.
C5_CloseNotCallable ==
    [][\A s \in Live :
          (/\ last'.op = "close" /\ last'.s = s
           /\ sessions[s].type_ = "temporary"
           /\ ~Truthy(sessions[s].sessionId))
              => /\ last'.result = "rejected"
                 /\ last'.reason = "The session is not callable."
                 /\ last'.host = <<>>
                 /\ sessions' = [sessions EXCEPT ![s].closed = "rejected"]
                 /\ newSessions' = newSessions
                 /\ sessionMap' = sessionMap
                 /\ calls' = calls]_vars

\* close() was called on a temporary session whose request is pending and
\* that has no id yet.
C5_Witness ==
    /\ last.op = "close"
    /\ last.result = "rejected"
    /\ sessions[last.s].type_ = "temporary"
    /\ sessions[last.s].sessionId = ""
    /\ sessions[last.s].generatePromise_

\* C6: close() on a persistent session, or on a temporary session with a
\* session id, returns the closed promise resolved; the temporary session
\* invokes webkitCancelKeyRequest with its id, the persistent one nothing.
C6_CloseResolves ==
    (last.op = "close"
     /\ (sessions[last.s].type_ = "persistent-license"
         \/ Truthy(sessions[last.s].sessionId)))
        => /\ last.result = "resolved"
           /\ last.host =
                  IF sessions[last.s].type_ = "persistent-license" THEN <<>>
                  ELSE <<[fn |-> "webkitCancelKeyRequest", arg |-> <<"", "">>,
                          sessionId |-> sessions[last.s].sessionId]>>

\* C7: remove() on a temporary session rejects with 'not a persistent
\* session', invokes no host primitive and changes nothing (the closed
\* promise stays as it was); on a persistent session it does what close()
\* does: no host call, the closed promise resolved and returned.
C7_Remove ==
    [][\A s \in Live :
          (last'.op = "remove" /\ last'.s = s)
              => IF sessions[s].type_ = "temporary"
                 THEN /\ last'.result = "rejected"
                      /\ last'.reason = "Not a persistent session."
                      /\ last'.host = <<>>
                      /\ sessions' = sessions
                      /\ newSessions' = newSessions
                      /\ sessionMap' = sessionMap
                 ELSE /\ last'.result = "resolved"
                      /\ last'.host = <<>>
                      /\ sessions' = [sessions EXCEPT ![s].closed = "resolved"]
                      /\ newSessions' = newSessions
                      /\ sessionMap' = sessionMap]_vars

\* remove() was rejected on a temporary session that has a session id and
\* whose closed promise is unsettled.
C7_Witness ==
    /\ last.op = "remove"
    /\ last.result = "rejected"
    /\ sessions[last.s].type_ = "temporary"
    /\ Truthy(sessions[last.s].sessionId)
    /\ sessions[last.s].closed = "pending"

\* A candidate's probing succeeds: one of its audio capabilities (codecs
\* stripped) or video capabilities is supported, or it declares no content
\* type and the host plays video/mp4 or video/webm with the key system; and
\* it does not require persistent state of a key system without it.
CandidateSucceeds(cfg, support, ks) ==
    LET audio == \E j \in 1..Len(cfg.audioCapabilities) :
                    /\ cfg.audioCapabilities[j][1] # ""
                    /\ <<cfg.audioCapabilities[j][1], "">> \in support
        video == \E j \in 1..Len(cfg.videoCapabilities) :
                    /\ cfg.videoCapabilities[j][1] # ""
                    /\ cfg.videoCapabilities[j] \in support
        declared == \/ \E j \in 1..Len(cfg.audioCapabilities) :
                          cfg.audioCapabilities[j][1] # ""
                    \/ \E j \in 1..Len(cfg.videoCapabilities) :
                          cfg.videoCapabilities[j][1] # ""
        generic == <<"video/mp4", "">> \in support
                   \/ <<"video/webm", "">> \in support
    IN /\ IF declared THEN audio \/ video ELSE generic
       /\ cfg.persistentState = "required" => ks # "org.w3.clearkey"

\* C8: the constructor adopts the first candidate, in input order, whose
\* probing succeeds, and throws when none does; whether a candidate succeeds
\* depends on that candidate alone.
C8_FirstSupported ==
    acc.phase = "constructed" =>
        LET cfgs == acc.supportedConfigurations
            ok == {i \in 1..Len(cfgs) :
                      CandidateSucceeds(cfgs[i], acc.support, acc.keySystem)}
        IN IF ok = {} THEN acc.access.thrown
           ELSE /\ ~acc.access.thrown
                /\ acc.access.index \in ok
                /\ \A i \in ok : acc.access.index <= i

\* Two candidates whose probing succeeds: the first one was adopted.
C8_Witness ==
    /\ acc.phase = "constructed"
    /\ Len(acc.supportedConfigurations) = 2
    /\ \A i \in 1..2 : CandidateSucceeds(acc.supportedConfigurations[i],
                                         acc.support, acc.keySystem)
    /\ acc.supportedConfigurations[1] # acc.supportedConfigurations[2]
    /\ acc.access.index = 1

\* C9: for 'org.w3.clearkey' a candidate that requires persistent state is
\* never selected, and construction throws when every candidate requires it;
\* for another key system a selected candidate that requires persistent state
\* yields persistentState 'required' and the session types
\* {'persistent-license'}.
C9_PersistentState ==
    acc.phase = "constructed" =>
        LET cfgs == acc.supportedConfigurations
            a == acc.access
        IN IF acc.keySystem = "org.w3.clearkey"
           THEN /\ ~a.thrown => cfgs[a.index].persistentState # "required"
                /\ (\A i \in 1..Len(cfgs) : cfgs[i].persistentState = "required")
                       => a.thrown
           ELSE (~a.thrown /\ cfgs[a.index].persistentState = "required")
                    => /\ a.configuration_.persistentState = "required"
                       /\ a.configuration_.sessionTypes = <<"persistent-license">>

\* ClearKey, a first candidate that requires persistent state and whose audio
\* capability the host supports: it was passed over for the second.
C9_Witness ==
    /\ acc.phase = "constructed"
    /\ acc.keySystem = "org.w3.clearkey"
    /\ Len(acc.supportedConfigurations) = 2
    /\ acc.supportedConfigurations[1].persistentState = "required"
    /\ acc.supportedConfigurations[1].audioCapabilities = <<<<"audio/mp4", "codecs">>>>
    /\ <<"audio/mp4", "">> \in acc.support
    /\ acc.access.index = 2

\* C10: the size of the status map is 1 if a status is set and 0 otherwise;
\* get(keyId) returns the status set for the fake key id, and undefined for
\* every other id and when no status is set; forEach calls its functor once
\* if a status is set, and not at all otherwise.
C10_KeyStatusTable ==
    LET isSet == tlast.set # Undefined
    IN /\ tbl.size = IF isSet THEN 1 ELSE 0
       /\ tlast.op = "get" =>
             tlast.result = <<IF isSet /\ tlast.arg = KEY_ID_ THEN tlast.set
                              ELSE Undefined>>
       /\ tlast.op = "forEach" =>
             tlast.result = IF isSet THEN <<tlast.set>> ELSE <<>>

\* get(fake key id) returned 'usable' from a map of size 1.
C10_Witness ==
    /\ tlast.op = "get"
    /\ tlast.arg = KEY_ID_
    /\ tlast.result = <<"usable">>
    /\ tbl.size = 1

\* The data webkitGenerateKeyRequest received in the operation that ran last.
GenerateData(o) == o.host[1].arg

\* C11: an accepted load(id) on a persistent-license session hands the host
\* 'LOAD_SESSION|' followed by id, an accepted generateRequest(initData)
\* 'PERSISTENT|' followed by initData, and on a temporary session the
\* initData as it is; the first key-message event routed to the session
\* afterwards (no event has referenced the session before) resolves the
\* pending promise, clears the slot and dispatches a 'licenserequest' message.
C11_RequestData ==
    [][\A s \in Live :
          /\ (/\ last'.op = "load" /\ last'.s = s
              /\ ~sessions[s].initialized_
              /\ sessions[s].type_ = "persistent-license")
                 => /\ Len(last'.host) = 1
                    /\ last'.host[1].fn = "webkitGenerateKeyRequest"
                    /\ GenerateData(last') = <<"LOAD_SESSION|", last'.arg>>
          /\ (/\ last'.op = "generateRequest" /\ last'.s = s
              /\ ~sessions[s].initialized_)
                 => /\ Len(last'.host) = 1
                    /\ last'.host[1].fn = "webkitGenerateKeyRequest"
                    /\ GenerateData(last') =
                          <<IF sessions[s].type_ = "persistent-license"
                            THEN "PERSISTENT|" ELSE "", last'.arg>>
          /\ (/\ last'.op = "webkitkeymessage" /\ last'.s = s
              /\ sessions[s].generatePromise_
              /\ newSessions # <<>> /\ Head(newSessions) = s)
                 => /\ sessions'[s].genState = "resolved"
                    /\ ~sessions'[s].generatePromise_
                    /\ last'.events = <<[type |-> "message",
                                         detail |-> "licenserequest",
                                         target |-> s]>>]_vars

\* C12: createSession accepts 'temporary' and 'persistent-license', and
\* 'temporary' is the type when none is given (undefined, or the empty string,
\* which the code reads alike); for any other type it throws a TypeError and
\* leaves the sessions, the pending queue and the table as they were; on
\* success one session of that type, uninitialized, without id, status or
\* promises, is appended and is the last entry of the pending queue.
C12_CreateSession ==
    [][last'.op = "createSession" =>
          LET type == IF last'.arg \in {Undefined, ""} THEN "temporary"
                      ELSE last'.arg
          IN IF type \in {"temporary", "persistent-license"}
             THEN /\ last'.result = "session"
                  /\ last'.s = Len(sessions) + 1
                  /\ sessions' = Append(sessions,
                        [type_ |-> type, initialized_ |-> FALSE,
                         generatePromise_ |-> FALSE, genState |-> "none",
                         updatePromise_ |-> 0, sessionId |-> "",
                         closed |-> "pending",
                         keyStatuses |-> [size |-> 0, status_ |-> Undefined],
                         retry |-> <<>>])
                  /\ newSessions' = Append(newSessions, last'.s)
                  /\ sessionMap' = sessionMap
             ELSE /\ last'.result = "thrown"
                  /\ last'.reason = "TypeError"
                  /\ sessions' = sessions
                  /\ newSessions' = newSessions
                  /\ sessionMap' = sessionMap]_vars

\* createSession() without a type appended a second session behind one that
\* is still pending.
C12_Witness ==
    /\ last.op = "createSession"
    /\ last.arg = Undefined
    /\ last.result = "session"
    /\ newSessions = <<1, 2>>
    /\ sessions[2].type_ = "temporary"

IsHostEvent(o) ==
    o.op \in {"webkitkeymessage", "webkitkeyadded", "webkitkeyerror"}

\* C13: the session an event with session id `id` is routed to: the session
\* the table maps id to, the queue and the table unchanged; or else the
\* oldest session (in creation order) of a non-empty pending queue, which
\* leaves the queue, takes id as its sessionId and enters the table under id;
\* or else none, and nothing changes.
C13_FindSession ==
    [][IsHostEvent(last') =>
          LET id == last'.arg
          IN IF sessionMap[id] # 0
             THEN /\ last'.s = sessionMap[id]
                  /\ newSessions' = newSessions
                  /\ sessionMap' = sessionMap
                  /\ sessions'[last'.s].sessionId = sessions[last'.s].sessionId
             ELSE IF newSessions # <<>>
             THEN /\ last'.s = Head(newSessions)
                  /\ \A i \in 1..Len(newSessions) : last'.s <= newSessions[i]
                  /\ newSessions' = Tail(newSessions)
                  /\ sessions'[last'.s].sessionId = id
                  /\ sessionMap' = [sessionMap EXCEPT ![id] = last'.s]
             ELSE /\ last'.s = 0
                  /\ last'.result = "dropped"
                  /\ sessions' = sessions
                  /\ newSessions' = newSessions
                  /\ sessionMap' = sessionMap]_vars

\* With two sessions pending, an event with a new id went to the older one.
C13_Witness ==
    /\ IsHostEvent(last)
    /\ last.s = 1
    /\ Truthy(last.arg)
    /\ newSessions = <<2>>
    /\ sessions[1].sessionId = last.arg
    /\ sessionMap[last.arg] = 1

InQueue(s) == \E i \in 1..Len(newSessions) : newSessions[i] = s

KeysOf(s) == {id \in EventIds : sessionMap[id] = s}

\* The moves of session s from the pending queue to the table.
MovesOf(s) == {i \in 1..Len(order.assigned) : order.assigned[i][2] = s}

\* C14: every session is either in the pending queue, once, or in the table,
\* under one key, never both; it has moved from the queue to the table at
\* most once; its sessionId is still the id it was given when it moved, and
\* is the key it is stored under.
C14_MovedOnce ==
    \A s \in Live :
        /\ InQueue(s) <=> KeysOf(s) = {}
        /\ Cardinality({i \in 1..Len(newSessions) : newSessions[i] = s}) <= 1
        /\ Cardinality(KeysOf(s)) <= 1
        /\ Cardinality(MovesOf(s)) <= 1
        /\ InQueue(s) <=> MovesOf(s) = {}
        /\ \A i \in MovesOf(s) : sessions[s].sessionId = order.assigned[i][1]
        /\ \A id \in KeysOf(s) : sessions[s].sessionId = id

\* Both sessions are in the table under their ids and the first one was
\* referenced again by a later event.
C14_Witness ==
    /\ newSessions = <<>>
    /\ sessionMap["s1"] = 1
    /\ sessionMap["s2"] = 2
    /\ Len(order.assigned) = 2
    /\ IsHostEvent(last)
    /\ last.arg = "s1"

\* C15: when the host reports its k-th new session id in answer to a request
\* (at least k sessions have made their request, generateRequest or load),
\* the id is assigned to the session that made the k-th request, whatever the
\* order in which the sessions were created.
C15_RequestOrder ==
    [][(/\ IsHostEvent(last')
        /\ Truthy(last'.arg)
        /\ Len(order'.assigned) = Len(order.assigned) + 1
        /\ Len(order'.assigned) <= Len(order.requested))
          => last'.s = order.requested[Len(order'.assigned)]]_vars

C17_KeyMessage ==
    [][\A s \in Live :
          (last'.op = "webkitkeymessage" /\ last'.s = s)
              => /\ last'.events =
                       <<[type |-> "message",
                          detail |-> IF sessions[s].keyStatuses.size = 0
                                     THEN "licenserequest" ELSE "licenserenewal",
                          target |-> s]>>
                 /\ ~sessions'[s].generatePromise_
                 /\ sessions'[s].genState =
                       IF sessions[s].generatePromise_ THEN "resolved"
                       ELSE sessions[s].genState
                 /\ sessions'[s].keyStatuses = sessions[s].keyStatuses
                 /\ sessions'[s].updatePromise_ = sessions[s].updatePromise_
                 /\ calls' = calls
                 /\ jobs' = jobs
                 /\ last'.host = <<>>]_vars

\* A key-message event arrived after the key was added, while an update was
\* pending: 'licenserenewal' was dispatched and the generate promise resolved.
C17_Witness ==
    /\ last.op = "webkitkeymessage"
    /\ last.s # 0
    /\ last.events[1].detail = "licenserenewal"
    /\ sessions[last.s].genState = "resolved"
    /\ sessions[last.s].keyStatuses.status_ = "usable"
    /\ sessions[last.s].updatePromise_ # 0

\* C18: a key-added event routed to a session sets the session's key status
\* to 'usable' (size 1) and dispatches one 'keystatuseschange' event; the
\* update promise in the slot, if one is there and unsettled, is resolved, no
\* other update promise changes, and the slot is empty afterwards; the
\* generate promise and its slot are as they were.  This holds with and
\* without an update outstanding.
C18_KeyAdded ==
    [][\A s \in Live :
          (last'.op = "webkitkeyadded" /\ last'.s = s)
              => /\ sessions'[s].keyStatuses = [size |-> 1, status_ |-> "usable"]
                 /\ last'.events = <<[type |-> "keystatuseschange",
                                      detail |-> "usable", target |-> s]>>
                 /\ sessions'[s].updatePromise_ = 0
                 /\ \A k \in 1..Len(calls) :
                       calls'[k].state =
                          IF k = sessions[s].updatePromise_
                             /\ calls[k].state = "pending"
                          THEN "resolved" ELSE calls[k].state
                 /\ sessions'[s].generatePromise_ = sessions[s].generatePromise_
                 /\ sessions'[s].genState = sessions[s].genState
                 /\ last'.host = <<>>]_vars

\* A key-added event resolved the outstanding update while the generate
\* promise was pending.
C18_Witness ==
    /\ last.op = "webkitkeyadded"
    /\ last.s # 0
    /\ \E k \in 1..Len(calls) : calls[k].s = last.s /\ calls[k].state = "resolved"
    /\ sessions[last.s].generatePromise_
    /\ sessions[last.s].updatePromise_ = 0

\* The states of the update promises do not change, except that promise k
\* (0: none) takes state how.
CallStates(k, how) ==
    \A j \in 1..Len(calls) :
        calls'[j].state = IF j = k THEN how ELSE calls[j].state

\* C19: a key-error event routed to a session takes one of three branches.
\* Without session id and with a pending generate promise: that promise is
\* rejected and its slot cleared, the status and the update are as they were.
\* With a session id and a pending update promise: that promise is rejected
\* and its slot cleared, the status and the generate promise are as they
\* were.  Otherwise no promise is settled and the key status changes, with a
\* 'keystatuseschange' event.
C19_ErrorRouting ==
    [][\A s \in Live :
          (last'.op = "webkitkeyerror" /\ last'.s = s)
              => LET k == sessions[s].updatePromise_
                     old == sessions[s]
                     new == sessions'[s]
                 IN IF ~Truthy(last'.arg) /\ old.generatePromise_
                    THEN /\ new.genState = "rejected"
                         /\ ~new.generatePromise_
                         /\ new.keyStatuses = old.keyStatuses
                         /\ new.updatePromise_ = old.updatePromise_
                         /\ CallStates(0, "")
                         /\ last'.events = <<>>
                    ELSE IF /\ Truthy(last'.arg)
                            /\ k # 0 /\ calls[k].state = "pending"
                    THEN /\ CallStates(k, "rejected")
                         /\ new.updatePromise_ = 0
                         /\ new.keyStatuses = old.keyStatuses
                         /\ new.generatePromise_ = old.generatePromise_
                         /\ new.genState = old.genState
                         /\ last'.events = <<>>
                    ELSE /\ CallStates(0, "")
                         /\ new.generatePromise_ = old.generatePromise_
                         /\ new.genState = old.genState
                         /\ Len(last'.events) = 1
                         /\ last'.events[1].type = "keystatuseschange"
                         /\ new.keyStatuses.status_ = last'.events[1].detail
                         /\ new.keyStatuses.status_ \in
                               {"output-restricted", "expired", "internal-error"}]_vars

\* C20: a key-error event that rejects neither promise (not: no session id
\* and a generate promise in its slot; not: a session id and an update
\* promise in its slot) sets the key status 'output-restricted' if the error
\* code is MEDIA_KEYERR_OUTPUT, whatever the system code; else 'expired' if
\* the system code is 1; else 'internal-error'.  One 'keystatuseschange'
\* event is dispatched and the size of the status map is 1 afterwards.
C20_StatusOfError ==
    [][\A s \in Live :
          (/\ last'.op = "webkitkeyerror" /\ last'.s = s
           /\ ~(~Truthy(last'.arg) /\ sessions[s].generatePromise_)
           /\ ~(Truthy(last'.arg) /\ sessions[s].updatePromise_ # 0))
              => LET status == IF last'.code = "MEDIA_KEYERR_OUTPUT"
                               THEN "output-restricted"
                               ELSE IF last'.systemCode = 1 THEN "expired"
                               ELSE "internal-error"
                 IN /\ sessions'[s].keyStatuses =
                          [size |-> 1, status_ |-> status]
                    /\ last'.events = <<[type |-> "keystatuseschange",
                                         detail |-> status, target |-> s]>>]_vars

\* An error with the code MEDIA_KEYERR_OUTPUT and the system code 1 made
\* the session 'output-restricted'.
C20_Witness ==
    /\ last.op = "webkitkeyerror"
    /\ last.s # 0
    /\ last.code = "MEDIA_KEYERR_OUTPUT"
    /\ last.systemCode = 1
    /\ sessions[last.s].keyStatuses = [size |-> 1, status_ |-> "output-restricted"]
    /\ Len(last.events) = 1

GenerateCalls(o) ==
    SelectSeq(o.host, LAMBDA h : h.fn = "webkitGenerateKeyRequest")

\* C21: an accepted generateRequest or load whose webkitGenerateKeyRequest
\* throws InvalidStateError returns the pending promise and sets the timer;
\* when the timer fires the primitive is invoked once more with the same
\* data, no further timer is set, and if this attempt throws the generate
\* promise is rejected and its slot cleared.  If the first attempt throws
\* another error the call is rejected, the slot is cleared and no timer is
\* set.  No other step invokes the primitive, so it is invoked at most twice
\* per session.
C21_RetryOnce ==
    [][\A s \in Live :
          /\ (IsGenerateCall(last') /\ last'.s = s /\ last'.host # <<>>)
                => /\ ~sessions[s].initialized_
                   /\ Len(last'.host) = 1
                   /\ IF sessions'[s].retry # <<>>
                      THEN /\ last'.result = "pending"
                           /\ sessions'[s].retry = <<GenerateData(last')>>
                           /\ sessions'[s].generatePromise_
                      ELSE last'.result = "rejected"
                              => /\ ~sessions'[s].generatePromise_
                                 /\ sessions'[s].genState = "rejected"
          /\ (last'.op = "retry" /\ last'.s = s)
                => /\ sessions[s].initialized_
                   /\ sessions[s].retry # <<>>
                   /\ Len(last'.host) = 1
                   /\ last'.host[1].fn = "webkitGenerateKeyRequest"
                   /\ GenerateData(last') = sessions[s].retry[1]
                   /\ sessions'[s].retry = <<>>
                   /\ last'.result = "thrown"
                         => /\ sessions'[s].genState = "rejected"
                            /\ ~sessions'[s].generatePromise_
          /\ (~IsGenerateCall(last') /\ last'.op # "retry")
                => GenerateCalls(last') = <<>>]_vars

\* C22: once close() has resolved the closed promise of a session, no step
\* changes the session's key status, its generate promise or its update slot,
\* no update promise of the session is made or settled, and no step on the
\* session invokes a host primitive.
C22_ClosedIsTerminal ==
    [][\A s \in Live :
          sessions[s].closed = "resolved"
              => /\ sessions'[s].keyStatuses = sessions[s].keyStatuses
                 /\ sessions'[s].genState = sessions[s].genState
                 /\ sessions'[s].generatePromise_ = sessions[s].generatePromise_
                 /\ sessions'[s].updatePromise_ = sessions[s].updatePromise_
                 /\ \A k \in 1..Len(calls') :
                       calls'[k].s = s
                           => k <= Len(calls) /\ calls'[k].state = calls[k].state
                 /\ last'.s = s => last'.host = <<>>]_vars

ListenedElements(k) == {x[1] : x \in dom.listeners[k]}

\* C23: after any sequence of setMediaKeys calls, every MediaKeys object
\* listens on at most one media element, the one it was last set on, and
\* then to exactly the four prefixed events of that element, which is its
\* media_; and when a call replaced the mediaKeys of an element by another
\* object or by null, the object replaced has no media element and no
\* listener.
C23_OneMediaElement ==
    /\ \A k \in Controllers :
          /\ Cardinality(ListenedElements(k)) <= 1
          /\ dom.listeners[k] # {}
                => /\ dom.bound[k] # Null
                   /\ dom.media_[k] = dom.bound[k]
                   /\ dom.listeners[k] =
                         {<<dom.bound[k], type>> : type \in PrefixedEvents}
          /\ dom.listeners[k] = {} => dom.media_[k] = Null
    /\ (dom.call.old # Null /\ dom.call.old # dom.call.mediaKeys)
          => /\ dom.listeners[dom.call.old] = {}
             /\ dom.media_[dom.call.old] = Null
    /\ dom.call.mediaKeys # Null
          => dom.listeners[dom.call.mediaKeys] =
                {<<dom.call.element, type>> : type \in PrefixedEvents}

\* k1, set on e1 and then on e2, was replaced on e1 by k2: k1 has no
\* listener left and k2 listens to the four events of e1.
C23_Witness ==
    /\ dom.call = [element |-> "e1", mediaKeys |-> "k2", old |-> "k1"]
    /\ dom.bound["k1"] = "e2"
    /\ dom.mediaKeys["e2"] = "k1"
    /\ dom.listeners["k1"] = {}
    /\ dom.listeners["k2"] = {<<"e1", type>> : type \in PrefixedEvents}

\* Session b is the only one whose generate promise is pending, no event has
\* referenced it yet, every other session that made a request has had its
\* answer and left the queue, and a session stored under the absent id is
\* one whose request the host failed.
OnlyUnanswered(b) ==
    /\ newSessions # <<>> /\ Head(newSessions) = b
    /\ sessions[b].generatePromise_
    /\ \A s \in Live \ {b} :
          /\ ~sessions[s].generatePromise_
          /\ InQueue(s) <=> ~sessions[s].initialized_
    /\ sessionMap[NoId] # 0 => sessions[sessionMap[NoId]].genState = "rejected"

\* C24: the promise of an accepted generateRequest or load is settled by the
\* host's answer to that session's request; in particular, when the host
\* answers the only outstanding request with a key-error event without
\* session id, the generate promise of that session is rejected and its slot
\* cleared, also when an earlier session failed the same way.
C24_OwnAnswer ==
    [][\A b \in Live :
          (/\ last'.op = "webkitkeyerror" /\ last'.arg = NoId
           /\ OnlyUnanswered(b))
              => /\ sessions'[b].genState = "rejected"
                 /\ ~sessions'[b].generatePromise_]_vars

\* C25: for ClearKey, the response of an update() whose key is not of type
\* 'oct' is never handed to webkitAddKey, and the promise of that call is
\* never resolved: it is rejected as soon as update_ has looked at the
\* response.
C25_NotOctNotForwarded ==
    \A k \in 1..Len(calls) :
        calls[k].response = "notoct"
            => /\ ~Forwarded(k)
               /\ calls[k].state # "resolved"

IsSessionCall(o) ==
    o.op \in {"generateRequest", "load", "update", "close", "remove"}

\* Every session other than m, the update promises of those sessions, the
\* pending queue and the table are as they were.
OthersUnchanged(m) ==
    /\ \A s \in Live \ {m} : sessions'[s] = sessions[s]
    /\ \A k \in 1..Len(calls) : calls[k].s # m => calls'[k] = calls[k]
    /\ \A k \in 1..Len(calls') : calls'[k].s # m => k <= Len(calls)
    /\ newSessions' = newSessions
    /\ sessionMap' = sessionMap

\* C26: a host event whose session id is in the table changes at most the
\* session the table maps the id to, and a call on a session
\* (generateRequest, load, update, close, remove) changes at most that
\* session; the other sessions (status, id, generate and update promises),
\* the pending queue and the table are unchanged.
C26_Isolation ==
    [][/\ (IsHostEvent(last') /\ sessionMap[last'.arg] # 0)
             => /\ last'.s = sessionMap[last'.arg]
                /\ OthersUnchanged(last'.s)
       /\ IsSessionCall(last') => OthersUnchanged(last'.s)]_vars

\* A key-added event for the second session, which already had its id,
\* arrived while the first session had an update and its generate promise
\* pending and no status.
C26_Witness ==
    /\ last.op = "webkitkeyadded"
    /\ last.s = 2
    /\ Len(sessions) = 2
    /\ sessions[2].genState = "resolved"
    /\ sessions[2].keyStatuses.status_ = "usable"
    /\ Truthy(sessions[1].sessionId)
    /\ sessions[1].generatePromise_
    /\ sessions[1].updatePromise_ # 0
    /\ sessions[1].keyStatuses.size = 0

=============================================================================
